---- MODULE Spec2Model ----
(***************************************************************************)
(* A model of wasla, a message-consumption framework on top of a topic     *)
(* exchange: the startup route check (Builder.__set_routes), the           *)
(* middleware chain (MiddlewareManager, LoggerMiddlware, RoutingMiddleware)*)
(* and the consumption loop with its completion handler (Builder.__consume,*)
(* Builder.__handle_completion).                                           *)
(*                                                                         *)
(* Four specifications share the variables:                                *)
(*   SpecRoutes  routers are created, filled and included, then            *)
(*               __set_routes runs once;                                   *)
(*   SpecChain   a chain is assembled (directly on a MiddlewareManager or  *)
(*               by Builder.run) and executed on a request;                *)
(*   Spec        the consumption loop of a Builder whose run() has         *)
(*               finished its setup;                                       *)
(*   SpecAll     the executions of SpecChain, and the loop of Spec on the  *)
(*               Builder whose run() has built its chain.                  *)
(* Strings the code concatenates or searches are sequences of one-letter   *)
(* strings, so that "+" is \o and "in" is a search.                        *)
(***************************************************************************)
EXTENDS Integers, Sequences, FiniteSets, TLC

VARIABLES
    \* ---- route table (Router, Builder.__routers, Builder.__routes)
    service_key,    \* Builder.__routing_key
    routerObjs,     \* the Router objects: [prefix, routes]
    routers,        \* Builder.__routers: indexes into routerObjs, in include order
    routes,         \* Builder.__routes: references <<router, route>> into routerObjs
    startup,        \* "init", "ok", or the error __set_routes raised
    registered      \* the (prefix, pattern) pairs as they were when __set_routes began

routeVars == <<service_key, routerObjs, routers, routes, startup, registered>>

VARIABLES
    \* ---- middleware chain (MiddlewareManager, Builder.__middlewares)
    head,           \* MiddlewareManager.__head
    tail,           \* MiddlewareManager.__tail
    nxt,            \* the attribute `next` of every stage instance (Unset: no such attribute)
    behaviour,      \* what each user stage's handle() does
    middlewares,    \* Builder.__middlewares
    chain_built,    \* "no", "direct" (MiddlewareManager used directly) or "run" (Builder.run)
    appended,       \* the add_middleware calls made on the manager, in order
    request,        \* the Request given to execute(), None before
    handler_ok,     \* whether the user's handlers return normally
    trace,          \* the events of that execute()
    outcome         \* "none", "ok" or the error execute() ended with

chainVars == <<head, tail, nxt, behaviour, middlewares, chain_built, appended,
               request, handler_ok, trace, outcome>>

VARIABLES
    \* ---- consumption loop (Builder.__consume, Builder.__handle_completion)
    deliveries,     \* every delivery the broker has made or queued; the index is its tag
    prov,           \* per delivery: the produced delivery it descends from, and how it arose
    queue,          \* the tags waiting in the bound queue, head first
    message,        \* the variable `message` of __consume (0: not bound yet)
    loop_pc,        \* where __consume is: "next", "acquire" or "body"
    semaphore,      \* the value of Builder.__semaphore
    tasks,          \* the tasks of __message_handler, in creation order, each with the
                    \* __handle_completion task its done callback creates
    settles,        \* per delivery: the ack(), reject(requeue=False), reject(requeue=True) calls
    produced,       \* how many messages the producers have sent
    launch_failures, \* how many times the body of the `async with` has raised
    concurrency_limit \* Builder.__concurrency_limit

loopVars == <<deliveries, prov, queue, message, loop_pc, semaphore, tasks, settles,
              produced, launch_failures, concurrency_limit>>

vars == <<routeVars, chainVars, loopVars>>

----------------------------------------------------------------------------
(* Strings *)

None == "None"
Dot == <<".">>
Empty == <<>>

\* Python's `a in b` on strings: a occurs in b as a contiguous substring.
IsPrefixOnly(a, b) ==
    Len(a) <= Len(b) /\ SubSeq(b, 1, Len(a)) = a

IsSubstring(a, b) ==
    \E i \in 1..(Len(b) + 1) :
        i + Len(a) - 1 <= Len(b) /\ SubSeq(b, i, i + Len(a) - 1) = a

----------------------------------------------------------------------------
(* Route table *)

RouterIds == {1, 2}
MaxRoutesPerRouter == 2
MaxIncluded == 2

ServiceKeys == { <<"s">>, <<"s", ".", "a">> }
Prefixes == { Empty, <<"s">>, <<"s", ".", "a">> }
Patterns == { <<"s">>, <<"a">>, <<"a", ".", "s">> }

\* Router.__init__
NewRouterObj(prefix) == [prefix |-> prefix, routes |-> <<>>]

\* Router.route: the decorator appends one route dict to the router's list.
RouteDict(routing_key, handler, event_schema) ==
    [routing_key |-> routing_key, handler |-> handler, event_schema |-> event_schema]

\* Builder.__set_routes, first loop: every route of every included router gets
\* its key prefixed in place and is appended (by reference) to __routes.
RECURSIVE MergeRouters(_, _, _, _)
MergeRouters(incl, i, objs, acc) ==
    IF i > Len(incl) THEN [objs |-> objs, routes |-> acc]
    ELSE LET r == incl[i]
             router == objs[r]
             prefixed == [j \in 1..Len(router.routes) |->
                            IF router.prefix # Empty
                            THEN [router.routes[j] EXCEPT
                                    !.routing_key = router.prefix \o Dot \o @]
                            ELSE router.routes[j]]
             refs == [j \in 1..Len(router.routes) |-> <<r, j>>]
         IN MergeRouters(incl, i + 1, [objs EXCEPT ![r].routes = prefixed], acc \o refs)

\* The route dict a reference of __routes points to.
RouteAt(i) == routerObjs[routes[i][1]].routes[routes[i][2]]

\* The routing key a reference of __routes reads.
RouteKey(objs, ref) == objs[ref[1]].routes[ref[2]].routing_key

\* Builder.__set_routes, second loop: seen_routes, duplicates, invalid_routes.
RECURSIVE CheckRoutes(_, _, _, _, _, _)
CheckRoutes(keys, i, seen, duplicates, invalid_routes, svc) ==
    IF i > Len(keys) THEN [duplicates |-> duplicates, invalid_routes |-> invalid_routes]
    ELSE LET routing_key == keys[i]
             dup == routing_key \in seen
             inv == ~IsSubstring(svc, routing_key)
         IN CheckRoutes(keys, i + 1,
                        IF dup THEN seen ELSE seen \cup {routing_key},
                        IF dup THEN Append(duplicates, routing_key) ELSE duplicates,
                        IF inv THEN Append(invalid_routes, i) ELSE invalid_routes,
                        svc)

\* Builder.__set_routes: the merged table and the outcome of the two checks.
SetRoutesResult(incl, objs, svc) ==
    LET merged == MergeRouters(incl, 1, objs, <<>>)
        keys == [k \in 1..Len(merged.routes) |-> RouteKey(merged.objs, merged.routes[k])]
        chk == CheckRoutes(keys, 1, {}, <<>>, <<>>, svc)
    IN [objs |-> merged.objs,
        routes |-> merged.routes,
        outcome |-> IF Len(chk.duplicates) # 0 THEN "DuplicatedRoutes"
                    ELSE IF Len(chk.invalid_routes) # 0 THEN "InvalidRoutes"
                    ELSE "ok"]

\* The (prefix, pattern) pairs of the included routers, in include order.
RECURSIVE RegisteredPairs(_, _, _)
RegisteredPairs(incl, i, objs) ==
    IF i > Len(incl) THEN <<>>
    ELSE [j \in 1..Len(objs[incl[i]].routes) |->
            [prefix |-> objs[incl[i]].prefix,
             pattern |-> objs[incl[i]].routes[j].routing_key]]
         \o RegisteredPairs(incl, i + 1, objs)

----------------------------------------------------------------------------
(* Messages and requests *)

OrderBody == "{\"order_id\": 7}"
EmptyBody == "{}"
BadBody == "oops"
Bodies == {OrderBody, EmptyBody, BadBody}

OrderKey == <<"s", ".", "o">>
PingKey == <<"s", ".", "p">>
OtherKey == <<"s", ".", "x">>
Keys == {OrderKey, PingKey, OtherKey}

\* json.loads(body.decode()): the decoded value, or the error raised.
JsonLoads(body) ==
    CASE body = OrderBody -> [raised |-> None, value |-> [order_id |-> 7]]
      [] body = EmptyBody -> [raised |-> None, value |-> <<>>]
      [] OTHER -> [raised |-> "JSONDecodeError", value |-> None]

\* Request.__init__: the attributes a Request has are message, routing_key and
\* message_id.
Request(msg) ==
    [message |-> JsonLoads(msg.body).value,
     routing_key |-> msg.routing_key,
     message_id |-> msg.message_id]

\* Reading request.<attr>: AttributeError when the object has no such attribute.
HasAttr(obj, attr) == attr \in DOMAIN obj

----------------------------------------------------------------------------
(* Middleware chain *)

Unset == "Unset"
UserStages == {"A", "B"}
LoggerStage == "logger"
RoutingStage == "routing"
AllStages == UserStages \cup {LoggerStage, RoutingStage}
Kinds == {"pass", "stop", "raise", "twice", "catch"}

MaxChain == 3
MaxMiddlewares == 2
MaxDepth == 6

\* MiddlewareManager.__init__
NewManager == [head |-> None, tail |-> None, nxt |-> [m \in AllStages |-> Unset]]

\* A wrong add_middleware: the new stage becomes the head.
AddMiddlewareAtHead(mgr, middleware) ==
    [head |-> middleware,
     tail |-> IF mgr.head = None THEN middleware ELSE mgr.tail,
     nxt |-> IF mgr.head = None THEN mgr.nxt
             ELSE [mgr.nxt EXCEPT ![middleware] = mgr.head]]

\* MiddlewareManager.add_middleware
AddMiddleware(mgr, middleware) ==
    [head |-> IF mgr.head = None THEN middleware ELSE mgr.head,
     tail |-> middleware,
     nxt |-> IF mgr.head = None THEN mgr.nxt
             ELSE [mgr.nxt EXCEPT ![mgr.tail] = middleware]]

\* add_middleware for each stage of a list, in order.
RECURSIVE AddAll(_, _, _)
AddAll(mgr, stages, i) ==
    IF i > Len(stages) THEN mgr
    ELSE AddAll(AddMiddleware(mgr, stages[i]), stages, i + 1)

\* Builder.run: the logger, then __activate_middleware over __middlewares, then
\* the routing middleware.
RunStages(mws) == <<LoggerStage>> \o mws \o <<RoutingStage>>

Ev(stage, kind) == <<stage, kind>>
Returned(events) == [events |-> events, raised |-> None]
Raised(events, error) == [events |-> events, raised |-> error]

RECURSIVE RunMiddleware(_, _, _, _)

\* The continuation a stage is given: lambda: run_middleware(middleware.next).
Continuation(middleware, req, hok, fuel) ==
    IF nxt[middleware] = Unset THEN Raised(<<>>, "AttributeError")
    ELSE RunMiddleware(nxt[middleware], req, hok, fuel - 1)

\* A user stage's handle(request, next): it runs its before-logic, then either
\* awaits next() and runs its after-logic ("pass"), returns at once ("stop"),
\* raises ("raise"), awaits next() a second time before its after-logic
\* ("twice"), or awaits next() inside try/except Exception ("catch").
UserHandle(middleware, req, hok, fuel) ==
    LET before == <<Ev(middleware, "before")>>
        after == <<Ev(middleware, "after")>>
    IN CASE behaviour[middleware] = "pass" ->
              LET r == Continuation(middleware, req, hok, fuel)
              IN IF r.raised # None THEN Raised(before \o r.events, r.raised)
                 ELSE Returned(before \o r.events \o after)
         [] behaviour[middleware] = "stop" -> Returned(before)
         [] behaviour[middleware] = "twice" ->
              LET r == Continuation(middleware, req, hok, fuel)
              IN IF r.raised # None THEN Raised(before \o r.events, r.raised)
                 ELSE LET r2 == Continuation(middleware, req, hok, fuel)
                      IN IF r2.raised # None
                         THEN Raised(before \o r.events \o r2.events, r2.raised)
                         ELSE Returned(before \o r.events \o r2.events \o after)
         [] behaviour[middleware] = "catch" ->
              LET r == Continuation(middleware, req, hok, fuel)
              IN Returned(before \o r.events \o after)
         [] OTHER -> Raised(before, "StageError")

\* LoggerMiddlware.handle: the first logger.info call reads request.message_id,
\* request.body and request.routing_key before anything else happens.
LoggerHandle(middleware, req, hok, fuel) ==
    LET before == <<Ev(middleware, "before")>>
    IN IF ~(HasAttr(req, "message_id") /\ HasAttr(req, "body") /\ HasAttr(req, "routing_key"))
       THEN Raised(before, "AttributeError")
       ELSE LET r == Continuation(middleware, req, hok, fuel)
            IN IF r.raised # None THEN Raised(before \o r.events, r.raised)
               ELSE Returned(before \o r.events \o <<Ev(middleware, "after")>>)

\* What a schema's model_validate accepts.
SchemaAccepts(schema, value) ==
    CASE schema = "OrderSchema" -> "order_id" \in DOMAIN value
      [] OTHER -> TRUE

\* RoutingMiddleware.validate_chema
ValidateSchema(schema, req) ==
    IF ~HasAttr(req, "body") THEN "AttributeError"
    ELSE IF SchemaAccepts(schema, req.body) THEN None
    ELSE "ValidationError"

\* A wrong dispatcher: a request that matches no route is an error.
RoutingHandleStrict(middleware, req, hok, fuel) ==
    LET before == <<Ev(middleware, "before")>>
        matching == {i \in 1..Len(routes) : RouteKey(routerObjs, routes[i]) = req.routing_key}
    IN IF matching = {} THEN Raised(before, "NoRouteError")
       ELSE LET i == CHOOSE x \in matching : \A y \in matching : x <= y
                route == routerObjs[routes[i][1]].routes[routes[i][2]]
                invalid == ValidateSchema(route.event_schema, req)
                call == <<Ev(route.handler, "call")>>
            IN IF invalid # None THEN Raised(before, invalid)
               ELSE IF hok THEN Returned(before \o call)
               ELSE Raised(before \o call, "HandlerError")

\* RoutingMiddleware.handle: the first route whose key equals the request's is
\* validated and its handler awaited; without a match the loop ends.
RoutingHandle(middleware, req, hok, fuel) ==
    LET before == <<Ev(middleware, "before")>>
        matching == {i \in 1..Len(routes) : RouteKey(routerObjs, routes[i]) = req.routing_key}
    IN IF matching = {} THEN Returned(before)
       ELSE LET i == CHOOSE x \in matching : \A y \in matching : x <= y
                route == routerObjs[routes[i][1]].routes[routes[i][2]]
                invalid == ValidateSchema(route.event_schema, req)
                call == <<Ev(route.handler, "call")>>
            IN IF invalid # None THEN Raised(before, invalid)
               ELSE IF hok THEN Returned(before \o call)
               ELSE Raised(before \o call, "HandlerError")

Handle(middleware, req, hok, fuel) ==
    CASE middleware = LoggerStage -> LoggerHandle(middleware, req, hok, fuel)
      [] middleware = RoutingStage -> RoutingHandle(middleware, req, hok, fuel)
      [] OTHER -> UserHandle(middleware, req, hok, fuel)

\* A wrong run_middleware: after a stage returns, the next stage is run anyway.
RunMiddlewareThenNext(middleware, req, hok, fuel) ==
    IF fuel = 0 THEN Raised(<<>>, "RecursionError")
    ELSE IF middleware \in {None, Unset} THEN Returned(<<>>)
    ELSE LET r == Handle(middleware, req, hok, fuel)
             n == RunMiddleware(nxt[middleware], req, hok, fuel - 1)
         IN IF r.raised # None THEN r
            ELSE [events |-> r.events \o n.events, raised |-> n.raised]

\* A wrong run_middleware: an error of the stage is caught and dropped.
RunMiddlewareSwallows(middleware, req, hok, fuel) ==
    IF fuel = 0 THEN Raised(<<>>, "RecursionError")
    ELSE IF middleware = None THEN Returned(<<>>)
    ELSE Returned(Handle(middleware, req, hok, fuel).events)

\* MiddlewareManager.execute, run_middleware: nothing for no stage, else the
\* stage's handle with the continuation. Nesting deeper than MaxDepth stands for
\* Python's recursion limit.
RunMiddleware(middleware, req, hok, fuel) ==
    IF fuel = 0 THEN Raised(<<>>, "RecursionError")
    ELSE IF middleware = None THEN Returned(<<>>)
    ELSE Handle(middleware, req, hok, fuel)

\* MiddlewareManager.execute(request)
Execute(req, hok) == RunMiddleware(head, req, hok, MaxDepth)

\* The stages reached from the head by following `next`.
RECURSIVE ChainFrom(_, _)
ChainFrom(middleware, fuel) ==
    IF fuel = 0 \/ middleware \in {None, Unset} THEN <<>>
    ELSE <<middleware>> \o ChainFrom(nxt[middleware], fuel - 1)

----------------------------------------------------------------------------
(* Consumption loop and completion handler *)

MaxConcurrencyLimit == 2
MaxProduced == 2
MaxLaunchFailures == 1
MaxPublishFailures == 1
MaxDeliveries == 5
MaxRetries == 3

SetupMiddlewares == <<"A">>

RetryHeader == "x-retry-count"
NoHeaders == <<>>
RetryHeaders(k) == (RetryHeader :> k)

\* The values of the constructor's concurrency_limit.
ConcurrencyLimits == 1..MaxConcurrencyLimit

\* What the producers send: a first delivery of a valid order, a message with
\* two retries behind it, an undecodable one with three, and an order without
\* its order_id with two.
ProducedMessages ==
    { [body |-> OrderBody, routing_key |-> OrderKey, message_id |-> "id1",
       headers |-> NoHeaders],
      [body |-> EmptyBody, routing_key |-> PingKey, message_id |-> "id2",
       headers |-> RetryHeaders(2)],
      [body |-> BadBody, routing_key |-> OtherKey, message_id |-> "id3",
       headers |-> RetryHeaders(3)],
      [body |-> EmptyBody, routing_key |-> OrderKey, message_id |-> "id4",
       headers |-> RetryHeaders(2)] }

\* message.headers.get(key, default)
HeadersGet(headers, key, default) ==
    IF key \in DOMAIN headers THEN headers[key] ELSE default

\* int(message.headers.get('x-retry-count', 0))
RetryCount(msg) == HeadersGet(msg.headers, RetryHeader, 0)

\* Message(message.body, delivery_mode=PERSISTENT, type=str,
\*         headers={'x-retry-count': retry_count + 1}), published under
\* message.routing_key
RetryMessage(msg) ==
    [body |-> msg.body,
     routing_key |-> msg.routing_key,
     message_id |-> None,
     headers |-> RetryHeaders(RetryCount(msg) + 1)]

\* Builder.__message_handler: Request(message), then the chain.
MessageHandler(msg, hok) ==
    LET decoded == JsonLoads(msg.body)
    IN IF decoded.raised # None THEN Raised(<<>>, decoded.raised)
       ELSE Execute(Request(msg), hok)

NoSettle == [ack |-> 0, reject |-> 0, requeue |-> 0]

\* asyncio.create_task(self.__message_handler(message)): the coroutine holds the
\* message of this iteration; no completion task exists yet. `handled` are the
\* handlers the unit has called, `calls` the broker calls its completion has made.
NewTask(m) ==
    [message |-> m, state |-> "pending", completion |-> "no", completes |-> 0,
     handled |-> <<>>, calls |-> <<>>]

\* The message the done callback hands to __handle_completion: the lambda reads
\* the variable `message` of __consume when it is called.
CallbackMessage(task) == message

\* A wrong release: the slot is kept when the block is left with a task created.
KeepOnLaunch(value) == value

\* Leaving the `async with self.__semaphore` block releases the slot.
ReleaseOnLaunch(value) == value + 1

----------------------------------------------------------------------------
(* The state each specification starts from *)

\* The route table of the chain and loop specifications: one router with prefix
\* "s", a route "o" with a schema and a route "p" without, included and checked.
DefaultRouters ==
    << [prefix |-> <<"s">>,
        routes |-> << RouteDict(<<"o">>, "on_order", "OrderSchema"),
                      RouteDict(<<"p">>, "on_ping", "DynamicAcceptModel") >>] >>

RoutesReady ==
    LET res == SetRoutesResult(<<1>>, DefaultRouters, <<"s">>)
    IN /\ service_key = <<"s">>
       /\ routerObjs = res.objs
       /\ routers = <<1>>
       /\ routes = res.routes
       /\ startup = res.outcome
       /\ registered = RegisteredPairs(<<1>>, 1, DefaultRouters)

RouteInit ==
    /\ service_key \in ServiceKeys
    /\ routerObjs = <<>>
    /\ routers = <<>>
    /\ routes = <<>>
    /\ startup = "init"
    /\ registered = <<>>

ChainInit ==
    /\ head = NewManager.head
    /\ tail = NewManager.tail
    /\ nxt = NewManager.nxt
    /\ behaviour \in [UserStages -> Kinds]
    /\ middlewares = <<>>
    /\ chain_built = "no"
    /\ appended = <<>>
    /\ request = None
    /\ handler_ok \in BOOLEAN
    /\ trace = <<>>
    /\ outcome = "none"

ChainIdle ==
    /\ head = NewManager.head
    /\ tail = NewManager.tail
    /\ nxt = NewManager.nxt
    /\ behaviour = [m \in UserStages |-> "pass"]
    /\ middlewares = <<>>
    /\ chain_built = "no"
    /\ appended = <<>>
    /\ request = None
    /\ handler_ok = TRUE
    /\ trace = <<>>
    /\ outcome = "none"

\* Builder(concurrency_limit=limit), asyncio.Semaphore(self.__concurrency_limit);
\* nothing delivered yet.
LoopStart(limit) ==
    /\ deliveries = <<>>
    /\ prov = <<>>
    /\ queue = <<>>
    /\ message = 0
    /\ loop_pc = "next"
    /\ concurrency_limit = limit
    /\ semaphore = limit
    /\ tasks = <<>>
    /\ settles = <<>>
    /\ produced = 0
    /\ launch_failures = 0

LoopInit == \E limit \in ConcurrencyLimits : LoopStart(limit)

\* The loop of a Builder that is not consuming.
LoopIdle == LoopStart(1)

\* The chain as Builder.run leaves it, with the user stages of SetupMiddlewares.
ChainReady ==
    LET mgr == AddAll(NewManager, RunStages(SetupMiddlewares), 1)
    IN /\ head = mgr.head
       /\ tail = mgr.tail
       /\ nxt = mgr.nxt
       /\ behaviour = [m \in UserStages |-> "pass"]
       /\ middlewares = SetupMiddlewares
       /\ chain_built = "run"
       /\ appended = RunStages(SetupMiddlewares)
       /\ request = None
       /\ handler_ok = TRUE
       /\ trace = <<>>
       /\ outcome = "none"

----------------------------------------------------------------------------
(* Route table: actions *)

\* Router(prefix)
NewRouter ==
    /\ startup = "init"
    /\ Len(routerObjs) + 1 \in RouterIds
    /\ \E prefix \in Prefixes : routerObjs' = Append(routerObjs, NewRouterObj(prefix))
    /\ UNCHANGED <<service_key, routers, routes, startup, registered>>
    /\ UNCHANGED <<chainVars, loopVars>>

\* @router.route(routing_key)
Route ==
    /\ startup = "init"
    /\ \E r \in 1..Len(routerObjs), routing_key \in Patterns :
        /\ Len(routerObjs[r].routes) < MaxRoutesPerRouter
        /\ routerObjs' = [routerObjs EXCEPT
                            ![r].routes = Append(@, RouteDict(routing_key, "wrapper",
                                                              "DynamicAcceptModel"))]
    /\ UNCHANGED <<service_key, routers, routes, startup, registered>>
    /\ UNCHANGED <<chainVars, loopVars>>

\* Builder.include_router(router)
IncludeRouter ==
    /\ startup = "init"
    /\ Len(routers) < MaxIncluded
    /\ \E r \in 1..Len(routerObjs) : routers' = Append(routers, r)
    /\ UNCHANGED <<service_key, routerObjs, routes, startup, registered>>
    /\ UNCHANGED <<chainVars, loopVars>>

\* Builder.run reaching __set_routes
SetRoutes ==
    /\ startup = "init"
    /\ LET res == SetRoutesResult(routers, routerObjs, service_key)
       IN /\ routerObjs' = res.objs
          /\ routes' = res.routes
          /\ startup' = res.outcome
    /\ registered' = RegisteredPairs(routers, 1, routerObjs)
    /\ UNCHANGED <<service_key, routers>>
    /\ UNCHANGED <<chainVars, loopVars>>

RouteNext == NewRouter \/ Route \/ IncludeRouter \/ SetRoutes

InitRoutes == RouteInit /\ ChainIdle /\ LoopIdle

SpecRoutes == InitRoutes /\ [][RouteNext]_vars

----------------------------------------------------------------------------
(* Middleware chain: actions *)

\* The messages a request is built from in the chain specification.
ChainMessages ==
    { [body |-> b, routing_key |-> k, message_id |-> "m1"] :
        b \in {x \in Bodies : JsonLoads(x).raised = None}, k \in Keys }

\* MiddlewareManager.add_middleware called directly, any stage instance (one
\* already in the chain too).
ManagerAddMiddleware ==
    /\ chain_built \in {"no", "direct"}
    /\ middlewares = <<>>
    /\ outcome = "none"
    /\ Len(appended) < MaxChain
    /\ \E m \in UserStages \cup {RoutingStage} :
        LET mgr == AddMiddleware([head |-> head, tail |-> tail, nxt |-> nxt], m)
        IN /\ head' = mgr.head
           /\ tail' = mgr.tail
           /\ nxt' = mgr.nxt
           /\ appended' = Append(appended, m)
    /\ chain_built' = "direct"
    /\ UNCHANGED <<behaviour, middlewares, request, handler_ok, trace, outcome>>
    /\ UNCHANGED <<routeVars, loopVars>>

\* Builder.add_middleware
BuilderAddMiddleware ==
    /\ chain_built = "no"
    /\ Len(middlewares) < MaxMiddlewares
    /\ \E m \in UserStages : middlewares' = Append(middlewares, m)
    /\ UNCHANGED <<head, tail, nxt, behaviour, chain_built, appended, request,
                   handler_ok, trace, outcome>>
    /\ UNCHANGED <<routeVars, loopVars>>

\* Builder.run, the assembly of the chain
BuilderRun ==
    /\ chain_built = "no"
    /\ LET mgr == AddAll([head |-> head, tail |-> tail, nxt |-> nxt],
                         RunStages(middlewares), 1)
       IN /\ head' = mgr.head
          /\ tail' = mgr.tail
          /\ nxt' = mgr.nxt
    /\ appended' = RunStages(middlewares)
    /\ chain_built' = "run"
    /\ UNCHANGED <<behaviour, middlewares, request, handler_ok, trace, outcome>>
    /\ UNCHANGED <<routeVars, loopVars>>

\* MiddlewareManager.execute(request) on a request built from some message
ExecuteChain ==
    /\ chain_built # "no"
    /\ outcome = "none"
    /\ \E msg \in ChainMessages :
        LET r == Execute(Request(msg), handler_ok)
        IN /\ request' = Request(msg)
           /\ trace' = r.events
           /\ outcome' = IF r.raised = None THEN "ok" ELSE r.raised
    /\ UNCHANGED <<head, tail, nxt, behaviour, middlewares, chain_built, appended,
                   handler_ok>>
    /\ UNCHANGED <<routeVars, loopVars>>

ChainNext == ManagerAddMiddleware \/ BuilderAddMiddleware \/ BuilderRun \/ ExecuteChain

InitChain == RoutesReady /\ ChainInit /\ LoopIdle

SpecChain == InitChain /\ [][ChainNext]_vars

----------------------------------------------------------------------------
(* Consumption loop: actions *)

\* Whether the completion of task i is about to publish a retry copy.
Publishes(i) ==
    /\ tasks[i].state = "failed"
    /\ RetryCount(deliveries[tasks[i].completes]) < MaxRetries

\* A producer publishes a message that the binding routes to the queue.
Produce ==
    /\ produced < MaxProduced
    /\ Len(deliveries) < MaxDeliveries
    /\ \E msg \in ProducedMessages : deliveries' = Append(deliveries, msg)
    /\ prov' = Append(prov, [root |-> Len(deliveries) + 1, how |-> "produced", by |-> 0])
    /\ settles' = Append(settles, NoSettle)
    /\ queue' = Append(queue, Len(deliveries) + 1)
    /\ produced' = produced + 1
    /\ UNCHANGED <<message, loop_pc, semaphore, tasks, launch_failures, concurrency_limit>>
    /\ UNCHANGED <<routeVars, chainVars>>

\* A wrong loop: it takes the next message only when every unit has ended.
PullAfterUnitsEnd ==
    /\ loop_pc = "next"
    /\ queue # <<>>
    /\ \A i \in 1..Len(tasks) : tasks[i].state # "pending"
    /\ message' = Head(queue)
    /\ queue' = Tail(queue)
    /\ loop_pc' = "acquire"
    /\ UNCHANGED <<deliveries, prov, semaphore, tasks, settles, produced,
                   launch_failures, concurrency_limit>>
    /\ UNCHANGED <<routeVars, chainVars>>

\* async for message in iterator
Pull ==
    /\ loop_pc = "next"
    /\ queue # <<>>
    /\ message' = Head(queue)
    /\ queue' = Tail(queue)
    /\ loop_pc' = "acquire"
    /\ UNCHANGED <<deliveries, prov, semaphore, tasks, settles, produced,
                   launch_failures, concurrency_limit>>
    /\ UNCHANGED <<routeVars, chainVars>>

\* async with self.__semaphore: entering
Acquire ==
    /\ loop_pc = "acquire"
    /\ semaphore > 0
    /\ semaphore' = semaphore - 1
    /\ loop_pc' = "body"
    /\ UNCHANGED <<deliveries, prov, queue, message, tasks, settles, produced,
                   launch_failures, concurrency_limit>>
    /\ UNCHANGED <<routeVars, chainVars>>

\* create_task(self.__message_handler(message)), add_done_callback(lambda ...),
\* and the end of the `async with` block
Launch ==
    /\ loop_pc = "body"
    /\ tasks' = Append(tasks, NewTask(message))
    /\ semaphore' = ReleaseOnLaunch(semaphore)
    /\ loop_pc' = "next"
    /\ UNCHANGED <<deliveries, prov, queue, message, settles, produced,
                   launch_failures, concurrency_limit>>
    /\ UNCHANGED <<routeVars, chainVars>>

\* A wrong fallback: a failed launch is treated like a failed handler, the
\* message is republished with its counter incremented and acked.
LaunchFailRetries ==
    /\ loop_pc = "body"
    /\ launch_failures < MaxLaunchFailures
    /\ Len(deliveries) < MaxDeliveries
    /\ launch_failures' = launch_failures + 1
    /\ semaphore' = semaphore + 1
    /\ settles' = Append([settles EXCEPT ![message].ack = @ + 1], NoSettle)
    /\ deliveries' = Append(deliveries, RetryMessage(deliveries[message]))
    /\ prov' = Append(prov, [root |-> prov[message].root, how |-> "republished", by |-> 0])
    /\ queue' = Append(queue, Len(deliveries) + 1)
    /\ loop_pc' = "next"
    /\ UNCHANGED <<message, tasks, produced, concurrency_limit>>
    /\ UNCHANGED <<routeVars, chainVars>>

\* The body of the `async with` raises: the slot is released, the except branch
\* rejects the message with requeue=True and the broker queues it again.
LaunchFail ==
    /\ loop_pc = "body"
    /\ launch_failures < MaxLaunchFailures
    /\ Len(deliveries) < MaxDeliveries
    /\ launch_failures' = launch_failures + 1
    /\ semaphore' = semaphore + 1
    /\ settles' = Append([settles EXCEPT ![message].requeue = @ + 1], NoSettle)
    /\ deliveries' = Append(deliveries, deliveries[message])
    /\ prov' = Append(prov, [root |-> prov[message].root, how |-> "requeued", by |-> 0])
    /\ queue' = <<Len(deliveries) + 1>> \o queue
    /\ loop_pc' = "next"
    /\ UNCHANGED <<message, tasks, produced, concurrency_limit>>
    /\ UNCHANGED <<routeVars, chainVars>>

\* The event loop runs a task of __message_handler to its end; its done
\* callback is scheduled.
RunTask ==
    /\ \E i \in 1..Len(tasks) :
        /\ tasks[i].state = "pending"
        /\ LET r == MessageHandler(deliveries[tasks[i].message], handler_ok)
           IN tasks' = [tasks EXCEPT
                          ![i].state = IF r.raised = None THEN "ok" ELSE "failed",
                          ![i].handled = SelectSeq(r.events, LAMBDA e : e[2] = "call")]
    /\ UNCHANGED <<deliveries, prov, queue, message, loop_pc, semaphore, settles,
                   produced, launch_failures, concurrency_limit>>
    /\ UNCHANGED <<routeVars, chainVars>>

\* The done callback: lambda t: create_task(self.__handle_completion(message, t))
DoneCallback ==
    /\ \E i \in 1..Len(tasks) :
        /\ tasks[i].state \in {"ok", "failed"}
        /\ tasks[i].completion = "no"
        /\ tasks' = [tasks EXCEPT ![i].completion = "start",
                                  ![i].completes = CallbackMessage(i)]
    /\ UNCHANGED <<deliveries, prov, queue, message, loop_pc, semaphore, settles,
                   produced, launch_failures, concurrency_limit>>
    /\ UNCHANGED <<routeVars, chainVars>>

\* A wrong completion: at the maximum retry count the failure is logged and the
\* message is left as it is.
HandleCompletionLogsOnly ==
    /\ \E i \in 1..Len(tasks) :
        LET m == tasks[i].completes
            msg == deliveries[m]
        IN /\ tasks[i].completion = "start"
           /\ Publishes(i) => Len(deliveries) < MaxDeliveries
           /\ IF tasks[i].state = "ok"
              THEN /\ settles' = [settles EXCEPT ![m].ack = @ + 1]
                   /\ tasks' = [tasks EXCEPT ![i].completion = "done",
                                             ![i].calls = Append(@, "ack")]
                   /\ UNCHANGED <<deliveries, prov, queue>>
              ELSE IF RetryCount(msg) < MaxRetries
              THEN /\ deliveries' = Append(deliveries, RetryMessage(msg))
                   /\ prov' = Append(prov, [root |-> prov[m].root, how |-> "republished",
                                            by |-> i])
                   /\ settles' = Append(settles, NoSettle)
                   /\ queue' = Append(queue, Len(deliveries) + 1)
                   /\ tasks' = [tasks EXCEPT ![i].completion = "published",
                                             ![i].calls = Append(@, "publish")]
              ELSE /\ tasks' = [tasks EXCEPT ![i].completion = "done"]
                   /\ UNCHANGED <<deliveries, prov, queue, settles>>
    /\ UNCHANGED <<message, loop_pc, semaphore, produced, launch_failures,
                   concurrency_limit>>
    /\ UNCHANGED <<routeVars, chainVars>>

\* __handle_completion up to its first broker call: ack() after a task that
\* succeeded; after one that failed, publish() of the retry copy while the retry
\* count is below 3, reject(requeue=False) otherwise.
HandleCompletion ==
    /\ \E i \in 1..Len(tasks) :
        LET m == tasks[i].completes
            msg == deliveries[m]
        IN /\ tasks[i].completion = "start"
           /\ Publishes(i) => Len(deliveries) < MaxDeliveries
           /\ IF tasks[i].state = "ok"
              THEN /\ settles' = [settles EXCEPT ![m].ack = @ + 1]
                   /\ tasks' = [tasks EXCEPT ![i].completion = "done",
                                             ![i].calls = Append(@, "ack")]
                   /\ UNCHANGED <<deliveries, prov, queue>>
              ELSE IF RetryCount(msg) < MaxRetries
              THEN /\ deliveries' = Append(deliveries, RetryMessage(msg))
                   /\ prov' = Append(prov, [root |-> prov[m].root, how |-> "republished",
                                            by |-> i])
                   /\ settles' = Append(settles, NoSettle)
                   /\ queue' = Append(queue, Len(deliveries) + 1)
                   /\ tasks' = [tasks EXCEPT ![i].completion = "published",
                                             ![i].calls = Append(@, "publish")]
              ELSE /\ settles' = [settles EXCEPT ![m].reject = @ + 1]
                   /\ tasks' = [tasks EXCEPT ![i].completion = "done",
                                             ![i].calls = Append(@, "reject")]
                   /\ UNCHANGED <<deliveries, prov, queue>>
    /\ UNCHANGED <<message, loop_pc, semaphore, produced,
                   launch_failures, concurrency_limit>>
    /\ UNCHANGED <<routeVars, chainVars>>

\* A wrong handling of a failed publish: the error is swallowed and the original
\* is acked all the same.
PublishFailSwallowed ==
    /\ \E i \in 1..Len(tasks) :
        /\ tasks[i].completion = "start"
        /\ Publishes(i)
        /\ Cardinality({j \in 1..Len(tasks) : tasks[j].completion = "publish_failed"})
              < MaxPublishFailures
        /\ settles' = [settles EXCEPT ![tasks[i].completes].ack = @ + 1]
        /\ tasks' = [tasks EXCEPT ![i].completion = "publish_failed",
                                  ![i].calls = Append(@, "ack")]
    /\ UNCHANGED <<deliveries, prov, queue, message, loop_pc, semaphore, produced,
                   launch_failures, concurrency_limit>>
    /\ UNCHANGED <<routeVars, chainVars>>

\* __handle_completion when `await self._exchange.publish(...)` raises: the
\* error leaves the except block and the coroutine; nothing was published and
\* message.ack() is not reached.
PublishFail ==
    /\ \E i \in 1..Len(tasks) :
        /\ tasks[i].completion = "start"
        /\ Publishes(i)
        /\ Cardinality({j \in 1..Len(tasks) : tasks[j].completion = "publish_failed"})
              < MaxPublishFailures
        /\ tasks' = [tasks EXCEPT ![i].completion = "publish_failed"]
    /\ UNCHANGED <<deliveries, prov, queue, message, loop_pc, semaphore, settles,
                   produced, launch_failures, concurrency_limit>>
    /\ UNCHANGED <<routeVars, chainVars>>

\* __handle_completion after the publish: await message.ack()
CompletionAck ==
    /\ \E i \in 1..Len(tasks) :
        /\ tasks[i].completion = "published"
        /\ settles' = [settles EXCEPT ![tasks[i].completes].ack = @ + 1]
        /\ tasks' = [tasks EXCEPT ![i].completion = "done",
                                  ![i].calls = Append(@, "ack")]
    /\ UNCHANGED <<deliveries, prov, queue, message, loop_pc, semaphore, produced,
                   launch_failures, concurrency_limit>>
    /\ UNCHANGED <<routeVars, chainVars>>

Next ==
    \/ Produce \/ Pull \/ Acquire \/ Launch \/ LaunchFail
    \/ RunTask \/ DoneCallback \/ HandleCompletion \/ PublishFail \/ CompletionAck

Init == RoutesReady /\ ChainReady /\ LoopInit

Spec == Init /\ [][Next]_vars

----------------------------------------------------------------------------
(* The chain and the loop of one Builder *)

\* A chain is assembled and executed as in SpecChain; on the Builder whose
\* run() has built the chain of SetupMiddlewares, the loop consumes as in Spec.
LoopReady ==
    /\ outcome = "none"
    /\ chain_built = "run"
    /\ middlewares = SetupMiddlewares
    /\ behaviour = [m \in UserStages |-> "pass"]
    /\ handler_ok

AllNext ==
    \/ deliveries = <<>> /\ ChainNext
    \/ LoopReady /\ Next

InitAll == RoutesReady /\ ChainInit /\ LoopInit

SpecAll == InitAll /\ [][AllNext]_vars

----------------------------------------------------------------------------
(* C1 - C6 *)

Tasks == 1..Len(tasks)
Tags == 1..Len(deliveries)

\* The units that have been launched and have not finished.
InFlight == {i \in Tasks : tasks[i].state = "pending"}

\* C1: at most concurrency_limit processing units are launched and unfinished at
\* any time.
C1_AtMostNInFlight == Cardinality(InFlight) <= concurrency_limit

SettleCalls(d) == settles[d].ack + settles[d].reject + settles[d].requeue

\* The retry copies published by the completion of task i.
RepublishedBy(i) == {p \in Tags : prov[p].how = "republished" /\ prov[p].by = i}

\* C2: no delivery gets more than one ack/reject call, and once the completion
\* of a unit has finished, that unit's own delivery has got exactly one.
C2_SettledOnceOnOwnDelivery ==
    /\ \A d \in Tags : SettleCalls(d) <= 1
    /\ \A i \in Tasks :
          tasks[i].completion = "done" => SettleCalls(tasks[i].message) = 1

\* The handler of the route matching msg would return normally on msg.
HandlerSucceedsOn(msg) ==
    /\ JsonLoads(msg.body).raised = None
    /\ handler_ok
    /\ \E k \in 1..Len(routes) :
          /\ RouteKey(routerObjs, routes[k]) = msg.routing_key
          /\ SchemaAccepts(RouteAt(k).event_schema, JsonLoads(msg.body).value)

\* C3: once the completion of a unit has finished whose message is on its first
\* attempt and whose handler succeeds, that message has exactly one ack and no
\* reject, and the completion has republished nothing.
C3_SuccessIsAckedOnce ==
    \A i \in Tasks :
        LET d == tasks[i].message
        IN ( /\ tasks[i].completion = "done"
             /\ prov[d].how = "produced"
             /\ RetryCount(deliveries[d]) = 0
             /\ HandlerSucceedsOn(deliveries[d]) )
           => /\ settles[d] = [ack |-> 1, reject |-> 0, requeue |-> 0]
              /\ RepublishedBy(i) = {}

\* C4: once the completion of a failed unit has finished whose message has a
\* retry count k < 3, it has published exactly one message, with that message's
\* body and routing key and the count k + 1, and the message has one ack and no
\* reject.
C4_FailureBelowMaxIsRepublished ==
    \A i \in Tasks :
        LET d == tasks[i].message
            msg == deliveries[d]
        IN ( /\ tasks[i].completion = "done"
             /\ tasks[i].state = "failed"
             /\ RetryCount(msg) < MaxRetries )
           => /\ Cardinality(RepublishedBy(i)) = 1
              /\ \A p \in RepublishedBy(i) :
                    /\ deliveries[p].body = msg.body
                    /\ deliveries[p].routing_key = msg.routing_key
                    /\ deliveries[p].headers = RetryHeaders(RetryCount(msg) + 1)
              /\ settles[d] = [ack |-> 1, reject |-> 0, requeue |-> 0]

\* C5: once the completion of a failed unit has finished whose message has a
\* retry count >= 3, the message has one reject(requeue=False), no ack, and the
\* completion has republished nothing.
C5_FailureAtMaxIsRejected ==
    \A i \in Tasks :
        LET d == tasks[i].message
        IN ( /\ tasks[i].completion = "done"
             /\ tasks[i].state = "failed"
             /\ RetryCount(deliveries[d]) >= MaxRetries )
           => /\ settles[d] = [ack |-> 0, reject |-> 1, requeue |-> 0]
              /\ RepublishedBy(i) = {}

\* The retry copies that descend from the produced delivery r.
CopiesOf(r) == {p \in Tags : prov[p].root = r /\ prov[p].how = "republished"}

\* Every delivery that descends from r has been processed and its completion
\* has finished, or was handed back to the broker by a failed launch.
LineageFinished(r) ==
    \A d \in Tags : prov[d].root = r =>
        \/ settles[d].requeue = 1
        \/ \E i \in Tasks : tasks[i].message = d /\ tasks[i].completion = "done"

\* C6: for a message produced with retry count 0 (every attempt fails): its retry
\* copies carry counts within 1..3, no two the same count; a copy with count 3
\* whose unit's completion has finished is rejected without requeue and not
\* acked; and when all its deliveries are through, there are exactly 3 copies.
C6_RetryIsBounded ==
    \A r \in Tags :
        (prov[r].how = "produced" /\ RetryCount(deliveries[r]) = 0) =>
            /\ \A p \in CopiesOf(r) : RetryCount(deliveries[p]) \in 1..MaxRetries
            /\ \A p, q \in CopiesOf(r) :
                  p # q => RetryCount(deliveries[p]) # RetryCount(deliveries[q])
            /\ \A i \in Tasks :
                  ( /\ prov[tasks[i].message].root = r
                    /\ RetryCount(deliveries[tasks[i].message]) = MaxRetries
                    /\ tasks[i].completion = "done" )
                  => settles[tasks[i].message] = [ack |-> 0, reject |-> 1, requeue |-> 0]
            /\ LineageFinished(r) => Cardinality(CopiesOf(r)) = MaxRetries

----------------------------------------------------------------------------
(* C9 *)

\* The fully-qualified pattern of a registered (prefix, pattern) pair.
FullyQualified(p) == IF p.prefix # Empty THEN p.prefix \o Dot \o p.pattern ELSE p.pattern

\* b = u \o a \o v for some u and v.
Contains(b, a) ==
    \E i \in 0..(Len(b) - Len(a)) : \A k \in 1..Len(a) : b[i + k] = a[k]

\* The condition under which the route check is to fail.
RouteCheckMustFail ==
    \/ \E i, j \in 1..Len(registered) :
          i # j /\ FullyQualified(registered[i]) = FullyQualified(registered[j])
    \/ \E i \in 1..Len(registered) :
          ~Contains(FullyQualified(registered[i]), service_key)

\* C9: once __set_routes has run, it failed if and only if two fully-qualified
\* patterns are textually equal or one of them does not contain the service
\* routing key; when it did not fail, every registered route is in the table,
\* in order, under its fully-qualified pattern.
C9_RouteCheck ==
    startup # "init" =>
        /\ (startup # "ok") <=> RouteCheckMustFail
        /\ startup = "ok" =>
              /\ Len(routes) = Len(registered)
              /\ \A k \in 1..Len(routes) :
                    RouteKey(routerObjs, routes[k]) = FullyQualified(registered[k])

\* Two routers with different prefixes and patterns whose fully-qualified
\* patterns coincide ("s" + "." + "a.s" and "s.a" + "." + "s"): the check failed.
C9_Witness ==
    /\ startup = "DuplicatedRoutes"
    /\ \E i, j \in 1..Len(registered) :
          /\ registered[i].prefix # registered[j].prefix
          /\ registered[i].pattern # registered[j].pattern
          /\ FullyQualified(registered[i]) = FullyQualified(registered[j])
          /\ Contains(FullyQualified(registered[i]), service_key)

----------------------------------------------------------------------------
(* C7, C8, C10 *)

Distinct(seq) == \A i, j \in 1..Len(seq) : i # j => seq[i] # seq[j]

\* C7: a chain [A, B, D] of two different stages that both await their
\* continuation and the dispatcher D, executed without an error, produces exactly
\* A-before, B-before, D, B-after, A-after; and the chain Builder.run builds from
\* stages added once each is the logger, the user stages in add_middleware order,
\* the dispatcher.
C7_ChainOrder ==
    /\ ( /\ chain_built = "direct"
         /\ outcome = "ok"
         /\ Len(appended) = 3
         /\ appended[1] \in UserStages /\ appended[2] \in UserStages
         /\ appended[1] # appended[2]
         /\ appended[3] = RoutingStage
         /\ behaviour[appended[1]] = "pass" /\ behaviour[appended[2]] = "pass" )
       => trace = << Ev(appended[1], "before"), Ev(appended[2], "before"),
                     Ev(RoutingStage, "before"),
                     Ev(appended[2], "after"), Ev(appended[1], "after") >>
    /\ (chain_built = "run" /\ Distinct(middlewares))
       => /\ ChainFrom(head, MaxDepth) = <<LoggerStage>> \o middlewares \o <<RoutingStage>>
          /\ head = LoggerStage
          /\ tail = RoutingStage

\* [A, B, D] was executed to its end and left the five events.
C7_Witness ==
    /\ chain_built = "direct"
    /\ appended = <<"A", "B", RoutingStage>>
    /\ behaviour["A"] = "pass" /\ behaviour["B"] = "pass"
    /\ outcome = "ok"
    /\ Len(trace) = 5

\* The stages that return without awaiting their continuation.
ShortCircuits(stage) ==
    \/ stage \in UserStages /\ behaviour[stage] = "stop"
    \/ stage = RoutingStage

\* C8: once a stage that returns without invoking its continuation has been
\* entered, the rest of that execute() enters no stage that had not been entered
\* before it, and after a user stage of that kind no handler is called: all that
\* follows is the after-logic of the enclosing stages.
C8_ShortCircuit ==
    \A i \in 1..Len(trace) :
        (trace[i][2] = "before" /\ ShortCircuits(trace[i][1])) =>
            \A j \in (i + 1)..Len(trace) :
                \/ trace[j][2] = "after"
                \/ trace[j][2] = "before" /\ \E k \in 1..i : trace[k] = trace[j]
                \/ trace[j][2] = "call" /\ trace[i][1] = RoutingStage /\ j = i + 1

\* A passes, B returns without its continuation, the dispatcher is behind B:
\* the run ended normally with A-before, B-before, A-after.
C8_Witness ==
    /\ chain_built = "direct"
    /\ appended = <<"A", "B", RoutingStage>>
    /\ behaviour["A"] = "pass" /\ behaviour["B"] = "stop"
    /\ outcome = "ok"
    /\ trace = <<Ev("A", "before"), Ev("B", "before"), Ev("A", "after")>>

\* The routes whose key equals the request's routing key.
MatchingRoutes ==
    {i \in 1..Len(routes) : RouteKey(routerObjs, routes[i]) = request.routing_key}

\* C10: in the chain built by run(), with user stages that pass the request on, a
\* request whose routing key equals a route's pattern and whose decoded body
\* satisfies that route's schema, with a handler that does not fail, reaches the
\* dispatcher, has that route's handler called exactly once and no other, and
\* execute() ends without an error.
C10_MatchedMessageHandled ==
    \A i \in (IF outcome = "none" THEN {} ELSE MatchingRoutes) :
        ( /\ chain_built = "run"
          /\ \A k \in 1..Len(middlewares) : behaviour[middlewares[k]] = "pass"
          /\ SchemaAccepts(RouteAt(i).event_schema, request.message)
          /\ handler_ok )
        => /\ outcome = "ok"
           /\ \E j \in 1..Len(trace) : trace[j] = Ev(RoutingStage, "before")
           /\ Cardinality({j \in 1..Len(trace) : trace[j][2] = "call"}) = 1
           /\ \E j \in 1..Len(trace) : trace[j] = Ev(RouteAt(i).handler, "call")

----------------------------------------------------------------------------
(* C11 *)

\* The dispatcher was entered during the execute() that has ended.
DispatcherEntered == \E j \in 1..Len(trace) : trace[j] = Ev(RoutingStage, "before")

\* C11: when the dispatcher has been given a request whose routing key equals
\* no registered pattern, no handler was called, and the dispatcher raised
\* nothing: execute() ended without an error.
C11_NoMatchReturnsSilently ==
    (outcome # "none" /\ DispatcherEntered /\ MatchingRoutes = {})
        => /\ \A j \in 1..Len(trace) : trace[j][2] # "call"
           /\ outcome = "ok"

\* A passing stage in front of the dispatcher, a request under "s.x", which no
\* route has: the dispatcher returned and the stage ran its after-logic.
C11_Witness ==
    /\ chain_built = "direct"
    /\ appended = <<"A", RoutingStage>>
    /\ behaviour["A"] = "pass"
    /\ outcome = "ok"
    /\ request.routing_key = OtherKey
    /\ trace = <<Ev("A", "before"), Ev(RoutingStage, "before"), Ev("A", "after")>>

----------------------------------------------------------------------------
(* C12 - C17 *)

\* The delivery's routing key equals no registered pattern.
Unmatched(d) ==
    \A k \in 1..Len(routes) : RouteKey(routerObjs, routes[k]) # deliveries[d].routing_key

\* C12 (as stated): a message whose routing key no route matches is never acked
\* and never rejected.
C12_UnmatchedStaysUnsettled ==
    \A d \in Tags : Unmatched(d) => (settles[d].ack = 0 /\ settles[d].reject = 0)

\* The ack and reject calls the completion of task i has made.
SettleCallsOf(i) == SelectSeq(tasks[i].calls, LAMBDA c : c \in {"ack", "reject"})

\* C12 (amended): an unmatched routing key does not exempt a message from being
\* settled: the completion of its unit never makes more than one ack or reject
\* call and, once it has finished, has made exactly one, on the message the done
\* callback handed it; that is the message itself when the loop had pulled no
\* later one. (A completion whose publish failed does not finish.)
C12_UnmatchedIsSettled ==
    \A i \in Tasks :
        Unmatched(tasks[i].message) =>
            /\ Len(SettleCallsOf(i)) <= 1
            /\ tasks[i].completion = "done" =>
                  /\ Len(SettleCallsOf(i)) = 1
                  /\ settles[tasks[i].completes].ack + settles[tasks[i].completes].reject >= 1
                  /\ tasks[i].completes = tasks[i].message =>
                        settles[tasks[i].message].ack + settles[tasks[i].message].reject >= 1

\* The only message consumed is one under "s.x", which no route has; its unit
\* has ended and its completion has rejected it.
C12_Witness ==
    /\ Len(tasks) = 1
    /\ Unmatched(tasks[1].message)
    /\ tasks[1].completion = "done"
    /\ tasks[1].completes = tasks[1].message
    /\ settles[tasks[1].message] = [ack |-> 0, reject |-> 1, requeue |-> 0]

\* The body decodes and the first route under the message's key has a schema
\* that does not accept it.
FailsValidation(msg) ==
    /\ JsonLoads(msg.body).raised = None
    /\ \E k \in 1..Len(routes) :
          /\ RouteKey(routerObjs, routes[k]) = msg.routing_key
          /\ \A j \in 1..(k - 1) : RouteKey(routerObjs, routes[j]) # msg.routing_key
          /\ ~SchemaAccepts(RouteAt(k).event_schema, JsonLoads(msg.body).value)

\* C13: the unit of a message whose body fails schema validation calls no
\* handler and does not succeed; once its completion has finished, a message
\* with counter k < 3 has exactly one retry copy from it (same body, same routing
\* key, counter k + 1) and one ack, and a message with counter >= 3 has one
\* reject(requeue=False), no ack and no retry copy from it.
C13_InvalidBodyTakesRetryPath ==
    \A i \in Tasks :
        LET d == tasks[i].message
            msg == deliveries[d]
        IN FailsValidation(msg) =>
            /\ tasks[i].handled = <<>>
            /\ tasks[i].state # "ok"
            /\ (tasks[i].completion = "done" /\ RetryCount(msg) < MaxRetries) =>
                  /\ Cardinality(RepublishedBy(i)) = 1
                  /\ \A p \in RepublishedBy(i) : deliveries[p] = RetryMessage(msg)
                  /\ settles[d] = [ack |-> 1, reject |-> 0, requeue |-> 0]
            /\ (tasks[i].completion = "done" /\ RetryCount(msg) >= MaxRetries) =>
                  /\ RepublishedBy(i) = {}
                  /\ settles[d] = [ack |-> 0, reject |-> 1, requeue |-> 0]

\* C14: the step in which the launch of a message's unit fails makes one
\* reject(requeue=True) call on that message and no other broker call: nothing
\* is published (the broker queues the message again as it was, counter
\* included), no unit exists for it, every slot is free, and the loop is at
\* its next pull.
C14_LaunchFailureRequeues ==
    [][ launch_failures' # launch_failures =>
          /\ settles'[message] = [settles[message] EXCEPT !.requeue = @ + 1]
          /\ \A d \in Tags : d # message => settles'[d] = settles[d]
          /\ \A p \in (1..Len(deliveries')) \ Tags :
                /\ prov'[p].how = "requeued"
                /\ deliveries'[p] = deliveries[message]
          /\ \A p \in Tags : deliveries'[p] = deliveries[p]
          /\ tasks' = tasks
          /\ semaphore' = concurrency_limit
          /\ loop_pc' = "next"
          /\ queue' # <<>>
      ]_vars

\* A launch has failed, the message was rejected with requeue=True and nothing
\* else, and the loop has since pulled the redelivery and launched its unit.
C14_Witness ==
    /\ launch_failures = 1
    /\ semaphore = concurrency_limit
    /\ \E d \in Tags :
          /\ settles[d] = [ack |-> 0, reject |-> 0, requeue |-> 1]
          /\ \E i \in Tasks :
                /\ prov[tasks[i].message].how = "requeued"
                /\ deliveries[tasks[i].message] = deliveries[d]

\* C15: the loop's steps do not depend on any unit having ended: with a message
\* waiting it can pull, with fewer than concurrency_limit units in flight it can
\* take a slot, and with the slot it can launch.
C15_LoopNeverWaitsForHandlers ==
    /\ (loop_pc = "next" /\ queue # <<>>) => ENABLED Pull
    /\ (loop_pc = "acquire" /\ Cardinality(InFlight) < concurrency_limit) => ENABLED Acquire
    /\ loop_pc = "body" => ENABLED Launch

\* With a limit of 2, an earlier unit has not ended while a later message has
\* been pulled, launched, run and settled.
C15_Witness ==
    /\ concurrency_limit = 2
    /\ \E i, j \in Tasks :
          /\ i < j
          /\ tasks[i].state = "pending"
          /\ tasks[j].completion = "done"
          /\ Cardinality(InFlight) < concurrency_limit

\* The slots taken and not given back: the loop holds one exactly while it is
\* inside the `async with` block.
SlotsHeld == IF loop_pc = "body" THEN 1 ELSE 0

\* C16: the free count stays within 0..concurrency_limit, free and held slots
\* add up to concurrency_limit in every state (each slot taken is given back
\* once, whichever way the block is left and however the unit ends), and with
\* nothing being launched or processed every slot is free.
C16_SlotPoolNeverLeaks ==
    /\ semaphore \in 0..concurrency_limit
    /\ semaphore + SlotsHeld = concurrency_limit
    /\ (loop_pc = "next" /\ InFlight = {}) => semaphore = concurrency_limit

\* A launch has failed, a unit was launched and has failed, its completion has
\* finished, nothing is in flight: every slot is free.
C16_Witness ==
    /\ launch_failures = 1
    /\ loop_pc = "next"
    /\ InFlight = {}
    /\ \E i \in Tasks : tasks[i].state = "failed" /\ tasks[i].completion = "done"
    /\ semaphore = concurrency_limit

\* C17: a completion that acks on the retry path has published the retry copy
\* of that message first; one whose publish failed has made no call and left no
\* copy; and every ack a message with counter < 3 has got comes from such a
\* completion, so that it is never acked without its retry copy published.
C17_AckAfterPublish ==
    /\ \A i \in Tasks :
          (tasks[i].state = "failed" /\ tasks[i].completion # "no"
             /\ RetryCount(deliveries[tasks[i].completes]) < MaxRetries) =>
            /\ tasks[i].calls \in {<<>>, <<"publish">>, <<"publish", "ack">>}
            /\ tasks[i].calls # <<>> =>
                  /\ Cardinality(RepublishedBy(i)) = 1
                  /\ \A p \in RepublishedBy(i) :
                        deliveries[p] = RetryMessage(deliveries[tasks[i].completes])
            /\ tasks[i].completion = "publish_failed" =>
                  (tasks[i].calls = <<>> /\ RepublishedBy(i) = {})
    /\ \A d \in Tags :
          RetryCount(deliveries[d]) < MaxRetries =>
            settles[d].ack =
                Cardinality({i \in Tasks : /\ tasks[i].completes = d
                                           /\ tasks[i].calls = <<"publish", "ack">>})

\* One completion has published the retry copy and then acked; another's
\* publish failed and its message has no ack.
C17_Witness ==
    \E i, j \in Tasks :
        /\ tasks[i].calls = <<"publish", "ack">>
        /\ settles[tasks[i].completes].ack = 1
        /\ tasks[j].completion = "publish_failed"
        /\ settles[tasks[j].completes].ack = 0

----------------------------------------------------------------------------
(* C18 - C20 *)

\* The stages a trace enters, in order.
Entered(events) ==
    LET befores == SelectSeq(events, LAMBDA e : e[2] = "before")
    IN [j \in 1..Len(befores) |-> befores[j][1]]

\* C18: after any sequence of add_middleware calls the stages reached from the
\* head by following `next` are the added stages, each once and in the order
\* added; and an execute() of a chain that ends with the dispatcher, all other
\* stages invoking their continuation once, enters exactly the added stages in
\* that order and does not run into the recursion limit.
C18_ChainHoldsAddedStages ==
    chain_built # "no" =>
        /\ ChainFrom(head, MaxDepth) = appended
        /\ ( /\ chain_built = "direct"
             /\ outcome # "none"
             /\ appended[Len(appended)] = RoutingStage
             /\ \A k \in 1..(Len(appended) - 1) :
                   appended[k] \in UserStages /\ behaviour[appended[k]] = "pass" )
           => (Entered(trace) = appended /\ outcome # "RecursionError")

\* C19: during one execute() of a chain of stages added once each, whatever the
\* stages do, no stage is entered more than once and at most one handler call
\* is made.
C19_SinglePass ==
    Distinct(appended) =>
        /\ \A stage \in AllStages :
              Cardinality({j \in 1..Len(trace) : trace[j] = Ev(stage, "before")}) <= 1
        /\ Cardinality({j \in 1..Len(trace) : trace[j][2] = "call"}) <= 1

\* A stage that catches was entered before position i of the trace.
CatchBefore(i) ==
    \E k \in 1..(i - 1) :
        /\ trace[k][2] = "before"
        /\ trace[k][1] \in UserStages
        /\ behaviour[trace[k][1]] = "catch"

\* The error raised where the trace is at position i, None if none is: by a
\* user stage that raises, by a user stage whose continuation reads a `next`
\* the stage does not have, by the logger or the dispatcher reading an attribute
\* the request does not have, or by a failing handler.
RaisedAt(i) ==
    LET stage == trace[i][1]
        kind == trace[i][2]
    IN CASE kind = "before" /\ stage \in UserStages /\ behaviour[stage] = "raise" ->
               "StageError"
         [] kind = "before" /\ stage \in UserStages
               /\ behaviour[stage] \in {"pass", "twice"} /\ nxt[stage] = Unset ->
               "AttributeError"
         [] kind = "before" /\ stage = LoggerStage /\ ~HasAttr(request, "body") ->
               "AttributeError"
         [] kind = "before" /\ stage = RoutingStage
               /\ MatchingRoutes # {} /\ ~HasAttr(request, "body") ->
               "AttributeError"
         [] kind = "call" /\ ~handler_ok -> "HandlerError"
         [] OTHER -> None

\* The unit of msg raises: the body does not decode, or the logger at the head
\* of the chain of run() reads an attribute the request does not have.
UnitRaises(msg) ==
    \/ JsonLoads(msg.body).raised # None
    \/ ~HasAttr(Request(msg), "body")

\* C20: where a stage, the dispatcher or a handler raises with no catching
\* stage entered before it, execute() ends with that error and nothing runs
\* after that point (no after-logic of the enclosing stages); and a unit that
\* raises is a failed task whose completion takes the failure branch: publish
\* then ack, or reject, never the plain ack.
C20_ErrorsPropagate ==
    /\ outcome # "none" =>
          \A i \in 1..Len(trace) :
              (RaisedAt(i) # None /\ ~CatchBefore(i)) =>
                  (outcome = RaisedAt(i) /\ i = Len(trace))
    /\ \A i \in Tasks :
          /\ tasks[i].state # "pending" =>
                (tasks[i].state = "failed" <=> UnitRaises(deliveries[tasks[i].message]))
          /\ tasks[i].state = "failed" =>
                /\ tasks[i].calls \in {<<>>, <<"publish">>, <<"publish", "ack">>, <<"reject">>}
                /\ tasks[i].completion = "done" =>
                      tasks[i].calls \in {<<"publish", "ack">>, <<"reject">>}

\* A passes the request on, B raises: execute() ended with B's error and A's
\* after-logic did not run.
C20_Witness ==
    /\ chain_built = "direct"
    /\ appended = <<"A", "B">>
    /\ behaviour["A"] = "pass" /\ behaviour["B"] = "raise"
    /\ trace = <<Ev("A", "before"), Ev("B", "before")>>
    /\ outcome = "StageError"

====
